---------------------------- MODULE Spec2Model ----------------------------
(***************************************************************************)
(* Model of the form state engine of packages/core/src/helpers.ts          *)
(* (createHelpers): the three stores data / touched / errors, the          *)
(* closure variables formNode and initialValues, and the operations        *)
(* setTouched, setError, setField, setFields, validate, reset,             *)
(* _setFormNode and _setInitialValues.                                     *)
(*                                                                         *)
(* A tree (Value Tree, Touched Tree, Error Tree) is represented by its     *)
(* leaf map: a function from leaf paths to leaf values.  A path is the     *)
(* sequence of its segments ("c[0]" is <<"c", "0">>).  The empty tree {}   *)
(* is the function with the empty domain, << >>.                           *)
(*                                                                         *)
(* validate() is an async function: the part before the await runs at the  *)
(* call (ValidateCall), the part after it runs in a later turn, when the   *)
(* promise of executeValidation settles (ValidateResolve, ValidateReject). *)
(* Every other operation is synchronous and is one atomic action.          *)
(***************************************************************************)
EXTENDS Naturals, Sequences, FiniteSets, TLC

VARIABLES
    data,            \* stores.data: the Value Tree
    touched,         \* stores.touched: the Touched Tree
    errors,          \* stores.errors: the Error Tree
    initialValues,   \* closure variable initialValues
    formNode,        \* closure variable formNode
    controls,        \* value of each element of the form's elements
    config_validate, \* config.validate: the validator registry
    runs,            \* the validate() calls in flight: the locals of each
    last             \* the operation that ran last

vars == <<data, touched, errors, initialValues, formNode, controls,
          config_validate, runs, last>>

---------------------------------------------------------------------------
(* Bounds and input domains *)

\* Number of validate() calls in flight at the same time: in Spec, and in
\* SpecOverlap (the headless form whose caller overlaps validate() calls).
MaxRuns == 1
MaxOverlap == 2
\* Number of validation functions added to config.validate by addValidator.
MaxValidators == 2

\* setField(path, value) arguments: a top-level field and an array element.
FieldInputs == {<<<<"a">>, "v1">>, <<<<"c", "0">>, "v1">>}

\* The touch argument of setField; "undefined" is the omitted argument.
TouchInputs == {"undefined", "true", "false"}

\* Paths a caller passes to setError.
ErrorPaths == {<<"a">>}

\* setTouched(fieldName, index?) arguments; "undefined" is the omitted index.
NoIndex == "undefined"
TouchArgs == {<<<<"a">>, NoIndex>>, <<<<"c">>, "0">>}

\* Messages a caller passes to setError.
CustomErrors == {"custom"}

\* Whole Value Trees a caller passes to setFields / _setInitialValues.
EmptyTree == << >>
TreeA1 == [p \in {<<"a">>} |-> "v1"]
TreeA2 == [p \in {<<"a">>} |-> "v2"]
InputTrees == {EmptyTree, TreeA2}

\* config.initialValues of the configurations explored: "undefined" is the
\* omitted option, "A1" is TreeA1.
ConfigInitialValues == {"undefined", "A1"}

\* The validation functions a configuration may register.
Validators == {"vRequired", "vShape", "vRemote", "vOptional"}
\* config.validate of the configurations explored.
ConfigValidate == {<< >>, <<"vRequired", "vShape", "vRemote">>}
\* The validation functions that addValidator is called with.
AddedValidators == {"vRequired", "vOptional"}

---------------------------------------------------------------------------
(* Deep structural operations of @felte/common *)

IsPrefix(p, q) ==
    /\ Len(p) <= Len(q)
    /\ \A i \in 1..Len(p) : p[i] = q[i]

\* _get(obj, path): the leaf at path, "undefined" when there is none.
Undefined == "undefined"
_get(obj, path) == IF path \in DOMAIN obj THEN obj[path] ELSE Undefined

\* _set(obj, path, value): a new tree with the location at path replaced by
\* value.  Containers along the path are created (a leaf in the way is
\* replaced by a container), what was stored beneath path is replaced.
_set(obj, path, value) ==
    LET kept == {q \in DOMAIN obj : ~IsPrefix(q, path) /\ ~IsPrefix(path, q)}
    IN  [q \in kept \cup {path} |-> IF q = path THEN value ELSE obj[q]]

\* _cloneDeep(obj): a copy rebuilt leaf by leaf.
_cloneDeep(obj) == [q \in DOMAIN obj |-> obj[q]]

\* deepSet(obj, value): the same shape, every leaf replaced by value.
deepSet(obj, value) == [q \in DOMAIN obj |-> value]

\* _merge(a, b): deep merge, the leaves of b win.
_merge(a, b) ==
    LET kept == {q \in DOMAIN a :
                    \A r \in DOMAIN b : ~IsPrefix(q, r) /\ ~IsPrefix(r, q)}
    IN  [q \in kept \cup DOMAIN b |-> IF q \in DOMAIN b THEN b[q] ELSE a[q]]

---------------------------------------------------------------------------
(* Validation functions and the validation executor *)

\* What a validation function gives back: a rejection, nothing, or an
\* Error Tree.
Rejected == [rejected |-> TRUE, defined |-> FALSE, tree |-> EmptyTree]
Nothing == [rejected |-> FALSE, defined |-> FALSE, tree |-> EmptyTree]
Returned(t) == [rejected |-> FALSE, defined |-> TRUE, tree |-> t]

\* vRequired: "a" is required.
\* vShape: "a" and "c[0]" must be present (its message for "a" differs).
\* vRemote: a check that fails (rejects) for the value "v2" of "a", and
\* returns nothing otherwise.
\* vOptional: a check of an optional field that collects its messages in an
\* object and returns it; it has nothing to report and returns {}.
RunValidator(v, values) ==
    IF v = "vOptional" THEN Returned(EmptyTree)
    ELSE IF v = "vRemote"
    THEN IF _get(values, <<"a">>) = "v2" THEN Rejected ELSE Nothing
    ELSE IF v = "vRequired"
    THEN IF <<"a">> \in DOMAIN values
         THEN Nothing
         ELSE Returned([p \in {<<"a">>} |-> "required"])
    ELSE LET missing == {<<"a">>, <<"c", "0">>} \ DOMAIN values
         IN  IF missing = {}
             THEN Nothing
             ELSE Returned([p \in missing |->
                               IF p = <<"a">> THEN "missing" ELSE "required"])

\* The results of the first n validators merged in registry order.
RECURSIVE MergeResults(_, _, _)
MergeResults(values, validations, n) ==
    IF n = 0 THEN Nothing
    ELSE LET before == MergeResults(values, validations, n - 1)
             this == RunValidator(validations[n], values)
         IN  IF ~this.defined THEN before
             ELSE Returned(_merge(before.tree, this.tree))

\* executeValidation(values, validations): every validator runs on the same
\* values; a rejection of any of them rejects the whole; otherwise the
\* merged Error Tree, or nothing when every validator returned nothing.
executeValidation(values, validations) ==
    IF \E i \in 1..Len(validations) :
           RunValidator(validations[i], values).rejected
    THEN Rejected
    ELSE MergeResults(values, validations, Len(validations))

---------------------------------------------------------------------------
(* The form's elements and the control-binding bridge *)

\* formNode.elements, in enumeration order: a fieldset named like a field
\* (not a form control), a control without a name and two controls of
\* field "a".
Elements ==
    << [isFormControl |-> FALSE, name |-> "a", path |-> <<"a">>],
       [isFormControl |-> TRUE, name |-> "", path |-> <<"a">>],
       [isFormControl |-> TRUE, name |-> "a", path |-> <<"a">>],
       [isFormControl |-> TRUE, name |-> "a", path |-> <<"a">>] >>

NoForm == "undefined"
FormNodes == {"form"}

isFormControl(i) == Elements[i].isFormControl
getPath(i) == Elements[i].path

\* setControlValue(control, value): the control shows value.
setControlValue(ctl, i, value) == [ctl EXCEPT ![i] = value]

\* setForm(node, values): every named form control shows the value of its
\* path in values, the empty string when there is none.
setForm(ctl, values) ==
    [i \in DOMAIN ctl |->
        IF ~isFormControl(i) \/ Elements[i].name = "" THEN ctl[i]
        ELSE IF getPath(i) \in DOMAIN values THEN values[getPath(i)] ELSE ""]

---------------------------------------------------------------------------
(* State after createHelpers *)

\* last: the operation that ran last.  writes lists the stores it wrote, in
\* the order of the writes.  For setField and setError, path, value and touch
\* are the arguments ("undefined" is the omitted touch).  For a validate()
\* call, afterReset says that the operation right before it was reset().
\* For the completion or the failure of a validate() call: afterReset says
\* that the call was made right after reset() and has ended right away.
\* For the completion: injected says that
\* the operation right before the completion was setError, registryChanged
\* that config.validate is not what it was when the call was made, returned
\* is what validate() returns to its caller, earlier is the
\* number of calls made before it that were still in flight, overtaken says
\* that the completion right before it was that of a call made after it,
\* and replaced that the Error Tree held an entry that the published result
\* does not.
Op(name) ==
    [op |-> name, writes |-> << >>,
     path |-> << >>, value |-> "undefined", touch |-> "undefined",
     afterReset |-> FALSE, injected |-> FALSE, registryChanged |-> FALSE,
     returned |-> Nothing,
     earlier |-> 0, overtaken |-> FALSE, replaced |-> FALSE]

\* let initialValues = config.initialValues ?? {}
InitialValuesOf(c) == IF c = "undefined" THEN EmptyTree ELSE TreeA1

\* The stores as they are handed to createHelpers: the Value Tree is a deep
\* clone of the initial values, the Touched Tree and Error Tree are empty.
StoresAtCreation ==
    /\ data = _cloneDeep(initialValues)
    /\ touched = EmptyTree
    /\ errors = EmptyTree

\* No form node is attached and no validate() call has been made.
Init ==
    /\ initialValues \in {InitialValuesOf(c) : c \in ConfigInitialValues}
    /\ StoresAtCreation
    /\ formNode = NoForm
    /\ controls = [i \in 1..Len(Elements) |-> ""]
    /\ config_validate \in ConfigValidate
    /\ runs = << >>
    /\ last = Op("createHelpers")

---------------------------------------------------------------------------
(* Operations *)

\* The path setTouched builds from fieldName and index.
TouchedPath(fieldName, index) ==
    IF index = NoIndex THEN fieldName ELSE Append(fieldName, index)

\* touched.update(($touched) => _set($touched, path, true))
TouchedAfterSetTouched(fieldName, index) ==
    _set(touched, TouchedPath(fieldName, index), TRUE)

setTouched(fieldName, index) ==
    /\ touched' = TouchedAfterSetTouched(fieldName, index)
    /\ last' = [Op("setTouched") EXCEPT !.writes = <<"touched">>]
    /\ UNCHANGED <<data, errors, initialValues, formNode, controls,
                   config_validate, runs>>

setError(path, error) ==
    /\ errors' = _set(errors, path, error)
    /\ last' = [Op("setError") EXCEPT !.writes = <<"errors">>,
                                      !.path = path, !.value = error]
    /\ UNCHANGED <<data, touched, initialValues, formNode, controls,
                   config_validate, runs>>

\* The elements the loop of setField stops at: named form controls whose
\* path is path.
Matches(path) ==
    {i \in 1..Len(Elements) :
        isFormControl(i) /\ Elements[i].name # "" /\ getPath(i) = path}

\* A loop without the return: every match is set.
ControlsAfterSetField_all(path, value) ==
    IF formNode = NoForm
    THEN controls
    ELSE [i \in DOMAIN controls |->
             IF i \in Matches(path) THEN value ELSE controls[i]]

\* The controls after the loop of setField: the first match is set, and
\* the loop returns.
ControlsAfterSetField(path, value) ==
    IF formNode = NoForm \/ Matches(path) = {}
    THEN controls
    ELSE LET first == CHOOSE i \in Matches(path) :
                          \A j \in Matches(path) : i <= j
         IN  setControlValue(controls, first, value)

\* A parameter without its default: an omitted touch is falsy.
TouchOrDefault_falsy(touch) == touch = "true"

\* The default of the parameter: touch = true.
TouchOrDefault(touch) == IF touch = "undefined" THEN TRUE ELSE touch = "true"

setField(path, value, touch) ==
    /\ data' = _set(data, path, value)
    /\ touched' = IF TouchOrDefault(touch)
                  THEN TouchedAfterSetTouched(path, NoIndex)
                  ELSE touched
    /\ controls' = ControlsAfterSetField(path, value)
    /\ last' = [Op("setField") EXCEPT
                    !.writes = IF TouchOrDefault(touch)
                               THEN <<"data", "touched">> ELSE <<"data">>,
                    !.path = path, !.value = value, !.touch = touch]
    /\ UNCHANGED <<errors, initialValues, formNode, config_validate, runs>>

\* A store that merges values into its content instead of replacing it.
DataAfterSetFields_merge(values) == _merge(data, _cloneDeep(values))

\* data.set(_cloneDeep(values)); if (formNode) setForm(formNode, values)
DataAfterSetFields(values) == _cloneDeep(values)

ControlsAfterSetFields(values) ==
    IF formNode # NoForm THEN setForm(controls, values) ELSE controls

setFields(values) ==
    /\ data' = DataAfterSetFields(values)
    /\ controls' = ControlsAfterSetFields(values)
    /\ last' = [Op("setFields") EXCEPT !.writes = <<"data">>]
    /\ UNCHANGED <<touched, errors, initialValues, formNode,
                   config_validate, runs>>

\* The sequence without its i-th element.
RemoveAt(seq, i) == [j \in 1..(Len(seq) - 1) |-> IF j < i THEN seq[j] ELSE seq[j + 1]]

\* What the awaited executeValidation call of a run settles to.
Outcome(run) == executeValidation(run.currentData, run.validations)

\* A validate() that publishes only when the executor gave back a result:
\* if (currentErrors) errors.set(currentErrors)
OrEmpty_stale(result) == IF result.defined THEN result.tree ELSE errors

\* currentErrors || {}
OrEmpty(result) == IF result.defined THEN result.tree ELSE EmptyTree

\* Mutant of ValidateCall: the result of the first validator is published
\* at the call, before the others have completed.
ValidateCall_publishEarly(maxInFlight) ==
    /\ Len(runs) < maxInFlight
    /\ runs' = Append(runs, [currentData |-> data,
                             validations |-> config_validate])
    /\ touched' = deepSet(touched, TRUE)
    /\ errors' = IF Len(config_validate) = 0 THEN errors
                 ELSE OrEmpty(MergeResults(data, config_validate, 1))
    /\ last' = Op("validate")
    /\ UNCHANGED <<data, initialValues, formNode, controls, config_validate>>

\* A validate() that marks every field of the Value Tree as touched, not
\* only the leaves the Touched Tree holds.
ValidateCall_touchesFields(maxInFlight) ==
    /\ Len(runs) < maxInFlight
    /\ runs' = Append(runs, [currentData |-> data,
                             validations |-> config_validate])
    /\ touched' = deepSet(_merge(data, touched), TRUE)
    /\ last' = [Op("validate") EXCEPT !.writes = <<"touched">>]
    /\ UNCHANGED <<data, errors, initialValues, formNode, controls,
                   config_validate>>

\* validate(), up to the await: the snapshot, touch-all, and the call of
\* executeValidation with the snapshot and config.validate.  The call joins
\* the calls in flight (runs holds them in the order they were made).
ValidateCall(maxInFlight) ==
    /\ Len(runs) < maxInFlight
    /\ runs' = Append(runs, [currentData |-> data,
                             validations |-> config_validate])
    /\ touched' = deepSet(touched, TRUE)
    /\ last' = [Op("validate") EXCEPT !.writes = <<"touched">>,
                                      !.afterReset = (last.op = "reset")]
    /\ UNCHANGED <<data, errors, initialValues, formNode, controls,
                   config_validate>>

\* Mutant of ValidateResolve: the Value Tree is read from the store after
\* the await instead of before it.
ValidateResolve_live(i) ==
    /\ i \in 1..Len(runs)
    /\ ~executeValidation(data, runs[i].validations).rejected
    /\ errors' = OrEmpty(executeValidation(data, runs[i].validations))
    /\ runs' = RemoveAt(runs, i)
    /\ last' = Op("resolve")
    /\ UNCHANGED <<data, touched, initialValues, formNode, controls,
                   config_validate>>

\* Mutant of ValidateResolve: a call publishes only when no call made after
\* it is in flight (the latest call supersedes the earlier ones).
ValidateResolve_latestOnly(i) ==
    /\ i \in 1..Len(runs)
    /\ ~Outcome(runs[i]).rejected
    /\ errors' = IF i = Len(runs) THEN OrEmpty(Outcome(runs[i])) ELSE errors
    /\ runs' = RemoveAt(runs, i)
    /\ last' = [Op("resolve") EXCEPT
                    !.earlier = i - 1,
                    !.overtaken = (last.op = "resolve" /\ i <= last.earlier)]
    /\ UNCHANGED <<data, touched, initialValues, formNode, controls,
                   config_validate>>

\* Mutant of ValidateResolve: the result is merged into the Error Tree.
ValidateResolve_merge(i) ==
    /\ i \in 1..Len(runs)
    /\ ~Outcome(runs[i]).rejected
    /\ errors' = _merge(errors, OrEmpty(Outcome(runs[i])))
    /\ runs' = RemoveAt(runs, i)
    /\ last' = Op("resolve")
    /\ UNCHANGED <<data, touched, initialValues, formNode, controls,
                   config_validate>>

\* A validate() that reads config.validate after the await: the result is
\* that of the validation functions registered at the completion.
ValidateResolve_liveRegistry(i) ==
    /\ i \in 1..Len(runs)
    /\ ~Outcome(runs[i]).rejected
    /\ errors' = OrEmpty(executeValidation(runs[i].currentData,
                                           config_validate))
    /\ runs' = RemoveAt(runs, i)
    /\ last' = [Op("resolve") EXCEPT
                    !.registryChanged = (runs[i].validations # config_validate)]
    /\ UNCHANGED <<data, touched, initialValues, formNode, controls,
                   config_validate>>

\* A validate() that does not publish over an Error Tree written since it
\* was called: a completion that comes right after a setError keeps the
\* Error Tree.
ValidateResolve_yieldsToSetError(i) ==
    /\ i \in 1..Len(runs)
    /\ ~Outcome(runs[i]).rejected
    /\ errors' = IF last.op = "setError" THEN errors
                 ELSE OrEmpty(Outcome(runs[i]))
    /\ runs' = RemoveAt(runs, i)
    /\ last' = [Op("resolve") EXCEPT !.injected = (last.op = "setError")]
    /\ UNCHANGED <<data, touched, initialValues, formNode, controls,
                   config_validate>>

\* A validate() that touches all leaves again after the await.
ValidateResolve_retouches(i) ==
    /\ i \in 1..Len(runs)
    /\ ~Outcome(runs[i]).rejected
    /\ errors' = OrEmpty(Outcome(runs[i]))
    /\ touched' = deepSet(touched, TRUE)
    /\ runs' = RemoveAt(runs, i)
    /\ last' = [Op("resolve") EXCEPT !.writes = <<"touched", "errors">>]
    /\ UNCHANGED <<data, initialValues, formNode, controls, config_validate>>

\* validate(), after the await, when the promise is fulfilled:
\* errors.set(currentErrors || {}); return currentErrors
ValidateResolve(i) ==
    /\ i \in 1..Len(runs)
    /\ ~Outcome(runs[i]).rejected
    /\ errors' = OrEmpty(Outcome(runs[i]))
    /\ runs' = RemoveAt(runs, i)
    /\ last' = [Op("resolve") EXCEPT
                    !.writes = <<"errors">>,
                    !.afterReset = (last.op = "validate" /\ last.afterReset),
                    !.injected = (last.op = "setError"),
                    !.registryChanged = (runs[i].validations # config_validate),
                    !.returned = Outcome(runs[i]),
                    !.earlier = i - 1,
                    !.overtaken = (last.op = "resolve" /\ i <= last.earlier),
                    !.replaced = \E p \in DOMAIN errors :
                                    _get(OrEmpty(Outcome(runs[i])), p) # errors[p]]
    /\ UNCHANGED <<data, touched, initialValues, formNode, controls,
                   config_validate>>

\* Mutant of ValidateReject: the rejection is caught and what the other
\* validators returned is published.
ValidateReject_swallow(i) ==
    /\ i \in 1..Len(runs)
    /\ Outcome(runs[i]).rejected
    /\ errors' = MergeResults(runs[i].currentData, runs[i].validations,
                              Len(runs[i].validations)).tree
    /\ runs' = RemoveAt(runs, i)
    /\ last' = Op("reject")
    /\ UNCHANGED <<data, touched, initialValues, formNode, controls,
                   config_validate>>

\* A validate() that undoes its touch-all when the validation fails.
ValidateReject_rollback(i) ==
    /\ i \in 1..Len(runs)
    /\ Outcome(runs[i]).rejected
    /\ touched' = deepSet(touched, FALSE)
    /\ runs' = RemoveAt(runs, i)
    /\ last' = [Op("reject") EXCEPT
                    !.afterReset = (last.op = "validate" /\ last.afterReset),
                    !.returned = Rejected]
    /\ UNCHANGED <<data, errors, initialValues, formNode, controls,
                   config_validate>>

\* validate(), when the awaited promise is rejected: the await throws and
\* the rejection leaves validate().
ValidateReject(i) ==
    /\ i \in 1..Len(runs)
    /\ Outcome(runs[i]).rejected
    /\ runs' = RemoveAt(runs, i)
    /\ last' = [Op("reject") EXCEPT
                    !.afterReset = (last.op = "validate" /\ last.afterReset),
                    !.returned = Rejected]
    /\ UNCHANGED <<data, touched, errors, initialValues, formNode, controls,
                   config_validate>>

\* A reset that leaves the Touched Tree as it is.
reset_keepsTouched ==
    /\ data' = DataAfterSetFields(_cloneDeep(initialValues))
    /\ controls' = ControlsAfterSetFields(_cloneDeep(initialValues))
    /\ last' = Op("reset")
    /\ UNCHANGED <<touched, errors, initialValues, formNode, config_validate,
                   runs>>

\* A reset that also empties the Error Tree.
reset_clearsErrors ==
    /\ data' = DataAfterSetFields(_cloneDeep(initialValues))
    /\ controls' = ControlsAfterSetFields(_cloneDeep(initialValues))
    /\ touched' = deepSet(touched, FALSE)
    /\ errors' = EmptyTree
    /\ last' = Op("reset")
    /\ UNCHANGED <<initialValues, formNode, config_validate, runs>>

\* A reset that untouches in two passes: the arrays of the Touched Tree
\* first, the other leaves next, each with its own touched.update.
reset_twoPasses ==
    /\ data' = DataAfterSetFields(_cloneDeep(initialValues))
    /\ controls' = ControlsAfterSetFields(_cloneDeep(initialValues))
    /\ touched' = deepSet(touched, FALSE)
    /\ last' = [Op("reset") EXCEPT !.writes = <<"data", "touched", "touched">>]
    /\ UNCHANGED <<errors, initialValues, formNode, config_validate, runs>>

\* setFields(_cloneDeep(initialValues));
\* touched.update(($touched) => deepSet($touched, false))
reset ==
    /\ data' = DataAfterSetFields(_cloneDeep(initialValues))
    /\ controls' = ControlsAfterSetFields(_cloneDeep(initialValues))
    /\ touched' = deepSet(touched, FALSE)
    /\ last' = [Op("reset") EXCEPT !.writes = <<"data", "touched">>]
    /\ UNCHANGED <<errors, initialValues, formNode, config_validate, runs>>

_setFormNode(node) ==
    /\ formNode' = node
    /\ last' = Op("_setFormNode")
    /\ UNCHANGED <<data, touched, errors, initialValues, controls,
                   config_validate, runs>>

\* A replacement that takes effect at once: the Value Tree is reset to the
\* new initial values.
_setInitialValues_eager(values) ==
    /\ initialValues' = values
    /\ data' = _cloneDeep(values)
    /\ last' = Op("_setInitialValues")
    /\ UNCHANGED <<touched, errors, formNode, controls, config_validate, runs>>

_setInitialValues(values) ==
    /\ initialValues' = values
    /\ last' = Op("_setInitialValues")
    /\ UNCHANGED <<data, touched, errors, formNode, controls,
                   config_validate, runs>>

\* addValidator(validator): the validation function joins config.validate,
\* after the ones registered before it.
addValidator(validator) ==
    /\ Len(config_validate) < MaxValidators
    /\ config_validate' = Append(config_validate, validator)
    /\ last' = Op("addValidator")
    /\ UNCHANGED <<data, touched, errors, initialValues, formNode, controls,
                   runs>>

Next ==
    \/ \E a \in TouchArgs : setTouched(a[1], a[2])
    \/ \E p \in ErrorPaths, e \in CustomErrors : setError(p, e)
    \/ \E f \in FieldInputs, t \in TouchInputs : setField(f[1], f[2], t)
    \/ \E v \in InputTrees : setFields(v)
    \/ ValidateCall(MaxRuns)
    \/ \E i \in 1..Len(runs) : ValidateResolve(i)
    \/ \E i \in 1..Len(runs) : ValidateReject(i)
    \/ reset
    \/ \E n \in FormNodes : _setFormNode(n)
    \/ \E v \in InputTrees : _setInitialValues(v)

Spec == Init /\ [][Next]_vars

\* The headless form (no form node is ever attached) whose caller makes
\* validate() calls while earlier ones are in flight.
NextOverlap ==
    \/ \E a \in TouchArgs : setTouched(a[1], a[2])
    \/ \E p \in ErrorPaths, e \in CustomErrors : setError(p, e)
    \/ \E f \in FieldInputs, t \in TouchInputs : setField(f[1], f[2], t)
    \/ \E v \in InputTrees : setFields(v)
    \/ ValidateCall(MaxOverlap)
    \/ \E i \in 1..Len(runs) : ValidateResolve(i)
    \/ \E i \in 1..Len(runs) : ValidateReject(i)

SpecOverlap == Init /\ [][NextOverlap]_vars

\* The headless form whose validation functions are all added by
\* addValidator, after createHelpers: config.validate is empty at first.
InitRegistry ==
    /\ Init
    /\ config_validate = << >>

NextRegistry ==
    \/ \E p \in ErrorPaths, e \in CustomErrors : setError(p, e)
    \/ \E v \in InputTrees : setFields(v)
    \/ \E v \in AddedValidators : addValidator(v)
    \/ ValidateCall(MaxRuns)
    \/ \E i \in 1..Len(runs) : ValidateResolve(i)

SpecRegistry == InitRegistry /\ [][NextRegistry]_vars

---------------------------------------------------------------------------
(* Properties of validate() *)

\* The Error Tree a validate() call in flight publishes when it is computed
\* from the given Value Tree.
ResultFor(values, validations) ==
    OrEmpty(executeValidation(values, validations))

\* The step is a call of validate().
Calls == last'.op = "validate" /\ Len(runs') = Len(runs) + 1

\* The step is the completion of the i-th validate() call in flight.
Completes(i) ==
    /\ Len(runs') = Len(runs) - 1
    /\ i \in 1..Len(runs)
    /\ runs' = RemoveAt(runs, i)

\* C1: the snapshot a validate() call hands to its validators is the Value
\* Tree at the call; no operation that runs while the call is in flight
\* (setField, setFields, reset, ...) alters that snapshot; and the Error Tree
\* published at its completion is the one computed from that snapshot, even
\* when the Value Tree has changed in between.
C1_SnapshotAtEntry ==
    [][ /\ Calls => runs'[Len(runs')].currentData = data
        /\ \A i \in 1..Len(runs) :
               /\ Len(runs') >= Len(runs) =>
                      runs'[i].currentData = runs[i].currentData
               /\ (Completes(i) /\ last'.op = "resolve") =>
                      errors' = ResultFor(runs[i].currentData,
                                          runs[i].validations) ]_vars

\* C1 witness: a validate() call has completed and the Error Tree it
\* published is not the one the current Value Tree gives: the Value Tree was
\* changed while the call was in flight.
C1_Witness ==
    /\ last.op = "resolve"
    /\ ~executeValidation(data, config_validate).rejected
    /\ errors # ResultFor(data, config_validate)

\* C2: when a validator of a validate() call rejects, the call ends by
\* throwing (it never publishes) and leaves the Error Tree as it was: nothing
\* of what the other validators returned is written.
C2_RejectLeavesErrors ==
    [][ \A i \in 1..Len(runs) :
            (/\ Completes(i)
             /\ \E k \in 1..Len(runs[i].validations) :
                    RunValidator(runs[i].validations[k],
                                 runs[i].currentData).rejected)
            => (errors' = errors /\ last'.op = "reject") ]_vars

\* C2 witness: a validate() call has thrown, the other validators had
\* errors to report for the Value Tree, and the Error Tree is not what
\* they reported.
C2_Witness ==
    /\ last.op = "reject"
    /\ Len(runs) = 0
    /\ MergeResults(data, config_validate, Len(config_validate)).tree
           # EmptyTree
    /\ errors # MergeResults(data, config_validate,
                             Len(config_validate)).tree

\* C3: within a validate() call the touch-all write comes first (at the
\* call, which does not write the Error Tree), and the Error Tree is written
\* once, at the completion, with the merged result of all validators; the
\* call is then over.  No step of a validate() call gives the Error Tree a
\* value other than that merged result.
C3_ValidateOrder ==
    [][ /\ Calls => (touched' = deepSet(touched, TRUE) /\ errors' = errors)
        /\ last'.op \in {"resolve", "reject"} =>
               /\ touched' = touched
               /\ \E i \in 1..Len(runs) :
                      /\ Completes(i)
                      /\ \/ errors' = errors /\ last'.op = "reject"
                         \/ errors' = OrEmpty(MergeResults(
                                          runs[i].currentData,
                                          runs[i].validations,
                                          Len(runs[i].validations))) ]_vars

\* C3 witness: a validate() call has published the merged result of two
\* validators that disagree on "a" (the later one wins), with every touched
\* leaf true.
C3_Witness ==
    /\ last.op = "resolve"
    /\ <<"a">> \in DOMAIN errors /\ errors[<<"a">>] = "missing"
    /\ <<"c", "0">> \in DOMAIN errors
    /\ touched # EmptyTree
    /\ \A p \in DOMAIN touched : touched[p] = TRUE

\* C4: validate() calls in flight at the same time do not cancel or
\* supersede each other: a call stays in flight until its own completion,
\* whatever is called or completes meanwhile, and every completion
\* publishes its own result, whether or not calls made after it are in
\* flight or have published already.  So the Error Tree after the last
\* completion is the result of the call that completed last.
C4_LastToFinishWins ==
    [][ /\ Len(runs') >= Len(runs) =>
               \A i \in 1..Len(runs) : runs'[i] = runs[i]
        /\ Len(runs') < Len(runs) => \E i \in 1..Len(runs) : Completes(i)
        /\ \A i \in 1..Len(runs) :
               (Completes(i) /\ last'.op = "resolve") =>
                   errors' = ResultFor(runs[i].currentData,
                                       runs[i].validations) ]_vars

\* C4 witness: no call is in flight any more; the call that completed last
\* was made before the call that completed right before it, and the Error
\* Tree it published is not the one the current Value Tree gives.
C4_Witness ==
    /\ last.op = "resolve"
    /\ last.overtaken
    /\ Len(runs) = 0
    /\ ~executeValidation(data, config_validate).rejected
    /\ errors # ResultFor(data, config_validate)

\* C5: the Error Tree right after the completion of a validate() call is
\* exactly the result of its executor, the empty tree when there is none: an
\* entry the Error Tree held before (from an earlier call or from setError)
\* is still there only if the result holds the same entry.
C5_WhollyReplaced ==
    [][ \A i \in 1..Len(runs) :
            (Completes(i) /\ last'.op = "resolve") =>
                LET res == executeValidation(runs[i].currentData,
                                             runs[i].validations)
                IN  /\ res.defined => errors' = res.tree
                    /\ ~res.defined => errors' = EmptyTree
                    /\ \A p \in DOMAIN errors :
                           (p \in DOMAIN errors' /\ errors'[p] = errors[p])
                           => (/\ res.defined
                               /\ p \in DOMAIN res.tree
                               /\ res.tree[p] = errors[p]) ]_vars

\* C5 witness: a validate() call has completed, and an entry of the Error
\* Tree it found is not in what it published.
C5_Witness ==
    /\ last.op = "resolve"
    /\ last.replaced


---------------------------------------------------------------------------
(* Properties of reset, setFields and setField *)

\* Two paths that name locations apart from each other: neither is the
\* other or lies beneath it.
Apart(p, q) == ~IsPrefix(p, q) /\ ~IsPrefix(q, p)

\* C6: right after reset() the Value Tree equals the Initial Values Snapshot
\* and every leaf of the Touched Tree is false; reset() and every other
\* operation except _setInitialValues leave the Initial Values Snapshot as
\* it is, so a reset() after any of them yields the same Value Tree again.
C6_ResetRestores ==
    [][ /\ last'.op = "reset" =>
              /\ data' = initialValues
              /\ initialValues' = initialValues
              /\ DOMAIN touched' = DOMAIN touched
              /\ \A p \in DOMAIN touched' : touched'[p] = FALSE
        /\ last'.op # "_setInitialValues" => initialValues' = initialValues
        /\ (last.op = "reset" /\ last'.op = "reset") => data' = data ]_vars

\* C6 witness: reset() has run on a form whose fields had been touched and
\* whose Error Tree had been written, with initial values that are not
\* empty.
C6_Witness ==
    /\ last.op = "reset"
    /\ initialValues # EmptyTree
    /\ data = initialValues
    /\ <<"c", "0">> \in DOMAIN touched
    /\ errors # EmptyTree

\* C7: a step that changes the Error Tree is a setError or the successful
\* completion of a validate() call; reset, setField, setFields, setTouched,
\* _setInitialValues, _setFormNode, the start of a validate() call and its
\* failure leave every entry of the Error Tree in place.
C7_ErrorsFrame ==
    [][ /\ errors' # errors => last'.op \in {"setError", "resolve"}
        /\ last'.op \in {"reset", "setField", "setFields", "setTouched",
                         "_setInitialValues", "_setFormNode"}
               => /\ errors' = errors
                  /\ \A p \in DOMAIN errors :
                         p \in DOMAIN errors' /\ errors'[p] = errors[p] ]_vars

\* C7 witness: reset() has run and the Error Tree still holds an entry.
C7_Witness ==
    /\ last.op = "reset"
    /\ <<"a">> \in DOMAIN errors
    /\ data = EmptyTree

\* C8: setFields(values) leaves the Value Tree equal to values: no field of
\* the old Value Tree that values lacks is left, and the Touched Tree is
\* unchanged.
C8_SetFieldsReplaces ==
    [][ last'.op = "setFields" =>
        \A v \in InputTrees :
            setFields(v) =>
                /\ data' = v
                /\ \A p \in DOMAIN data \ DOMAIN v : p \notin DOMAIN data'
                /\ touched' = touched ]_vars

\* C8 witness: setFields has run with a tree that lacks the array element;
\* the Touched Tree still records the element as touched.
C8_Witness ==
    /\ last.op = "setFields"
    /\ data = TreeA2
    /\ <<"c", "0">> \in DOMAIN touched
    /\ touched[<<"c", "0">>]

\* C9: setField(path, value, touch) leaves value at path in the Value Tree
\* and every location apart from path as it was; with touch true or omitted
\* the Touched Tree leaf at path is true afterwards, with touch false the
\* Touched Tree is unchanged.
C9_SetField ==
    [][ last'.op = "setField" =>
        LET path == last'.path
            value == last'.value
            touch == last'.touch
        IN  /\ _get(data', path) = value
            /\ \A q \in DOMAIN data \cup DOMAIN data' :
                   Apart(q, path) => _get(data', q) = _get(data, q)
            /\ touch \in {"true", "undefined"} =>
                   (path \in DOMAIN touched' /\ touched'[path] = TRUE)
            /\ touch = "false" => touched' = touched ]_vars

\* C9 witness: setField has set the array element without touching it, on
\* a Value Tree that holds another field: that field has kept its value,
\* and the Touched Tree, which is not empty, has no leaf for the element.
C9_Witness ==
    /\ last.op = "setField"
    /\ last.touch = "false"
    /\ last.path = <<"c", "0">>
    /\ _get(data, <<"a">>) = "v2"
    /\ _get(data, <<"c", "0">>) = "v1"
    /\ touched # EmptyTree
    /\ <<"c", "0">> \notin DOMAIN touched

\* The first element, in enumeration order, that is a named form control
\* with the given path; 0 when there is none.
FirstControl(path) ==
    LET named == {i \in 1..Len(Elements) :
                     /\ Elements[i].isFormControl
                     /\ Elements[i].name # ""
                     /\ Elements[i].path = path}
    IN  IF named = {} THEN 0
        ELSE CHOOSE i \in named : \A j \in named : i <= j

\* C10: setField(path, value) changes at most one control.  With a form
\* attached the first named form control with that path shows value and
\* every other control is as it was; with no such control, or with no form
\* attached, no control changes.  The Value Tree is updated in each case.
C10_AtMostOneControl ==
    [][ last'.op = "setField" =>
        LET path == last'.path
            value == last'.value
            first == FirstControl(path)
            changed == {i \in DOMAIN controls : controls'[i] # controls[i]}
        IN  /\ Cardinality(changed) <= 1
            /\ (formNode # NoForm /\ first # 0) =>
                   /\ controls'[first] = value
                   /\ changed \subseteq {first}
            /\ (formNode = NoForm \/ first = 0) => controls' = controls
            /\ _get(data', path) = value ]_vars

\* C10 witness: with a form attached, setField has pushed its value into
\* the first control of field "a"; the second control of the same field
\* shows another value.
C10_Witness ==
    /\ last.op = "setField"
    /\ last.path = <<"a">>
    /\ formNode # NoForm
    /\ controls[3] = "v1"
    /\ controls[4] = "v2"

---------------------------------------------------------------------------
(* Properties of validate() in sequence with the other operations *)

\* Every leaf of the Touched Tree has the given value.
AllLeaves(tree, value) == \A p \in DOMAIN tree : tree[p] = value

\* C11: when validate() is called right after reset() with no validation
\* function registered and completes, the Error Tree is the empty tree,
\* whatever it held before, and every leaf of the Touched Tree is true.
C11_ResetThenValidate ==
    (last.op = "resolve" /\ last.afterReset /\ config_validate = << >>)
        => (errors = EmptyTree /\ AllLeaves(touched, TRUE))

\* C11 witness: such a validate() has completed on a form with touched
\* fields, and has emptied an Error Tree that held an entry.
C11_Witness ==
    /\ last.op = "resolve"
    /\ last.afterReset
    /\ config_validate = << >>
    /\ last.replaced
    /\ errors = EmptyTree
    /\ touched # EmptyTree

\* C12: _setInitialValues changes none of the Value Tree, the Touched Tree
\* and the Error Tree (nor what the controls show); the Value Tree that the
\* next reset() leaves is the snapshot as replaced, whatever the configured
\* initial values were.
C12_SnapshotReplaced ==
    [][ /\ last'.op = "_setInitialValues" =>
              /\ data' = data
              /\ touched' = touched
              /\ errors' = errors
              /\ controls' = controls
        /\ last'.op = "reset" => data' = initialValues ]_vars

\* C12 witness: reset() has run after the snapshot was replaced by a tree
\* that no configuration explored starts with, and the Value Tree is that
\* tree.
C12_Witness ==
    /\ last.op = "reset"
    /\ initialValues \notin {InitialValuesOf(c) : c \in ConfigInitialValues}
    /\ data = initialValues
    /\ touched # EmptyTree

---------------------------------------------------------------------------
(* Properties of validate() and the Validator Registry *)

\* C13: a validate() call takes config.validate as it is when the call is
\* made, and keeps it while in flight; addValidator changes neither the
\* calls in flight nor a store (nothing is validated again); the Error Tree
\* that a call publishes is the result of the validation functions
\* registered when it was made.
C13_RegistryAtCall ==
    [][ /\ Calls => runs'[Len(runs')].validations = config_validate
        /\ last'.op = "addValidator" =>
              /\ runs' = runs
              /\ data' = data
              /\ touched' = touched
              /\ errors' = errors
        /\ \A i \in 1..Len(runs) :
              (Completes(i) /\ last'.op = "resolve") =>
                  errors' = ResultFor(runs[i].currentData,
                                      runs[i].validations) ]_vars

\* C13 witness: a call has completed after a validation function was added
\* while it was in flight, and the Error Tree it published is not what the
\* validation functions now registered give.
C13_Witness ==
    /\ last.op = "resolve"
    /\ last.registryChanged
    /\ errors # ResultFor(data, config_validate)

---------------------------------------------------------------------------
(* The shape of the Touched Tree *)

\* The path names a location of the tree: a leaf, or a container above one.
IsLocation(tree, path) == \E q \in DOMAIN tree : IsPrefix(path, q)

\* C14: every leaf of the Touched Tree is a boolean and sits at a path that
\* is a field of the Value Tree.
C14_TouchedMirrorsValues ==
    \A p \in DOMAIN touched :
        /\ touched[p] \in BOOLEAN
        /\ IsLocation(data, p)

---------------------------------------------------------------------------
(* What validate() returns *)

\* C15: when a validate() call has completed, what it has returned is the
\* Error Tree it has published if that tree is not empty, and nothing
\* (undefined, not the empty tree) if it is empty.
C15_ReturnsWhatItPublishes ==
    last.op = "resolve" =>
        IF errors # EmptyTree
        THEN last.returned = Returned(errors)
        ELSE last.returned = Nothing

---------------------------------------------------------------------------
(* Store writes *)

\* The stores a sequence of writes names.
Written(writes) == {writes[i] : i \in 1..Len(writes)}

\* C16: no operation writes a store twice, and a store that an operation
\* does not write keeps its value.  For validate(), whose writes are split
\* by the await: the call writes the Touched Tree only, the completion the
\* Error Tree only, and a failed call writes nothing after the await.
C16_OneWritePerStore ==
    [][ LET w == last'.writes
            stores == Written(w)
        IN  /\ Cardinality(stores) = Len(w)
            /\ stores \subseteq {"data", "touched", "errors"}
            /\ "data" \in stores \/ data' = data
            /\ "touched" \in stores \/ touched' = touched
            /\ "errors" \in stores \/ errors' = errors
            /\ last'.op = "validate" => w = <<"touched">>
            /\ last'.op = "resolve" => w = <<"errors">>
            /\ last'.op = "reject" => w = << >> ]_vars

\* C16 witness: reset(), which writes two stores, has run on a form with
\* touched fields and with initial values.
C16_Witness ==
    /\ last.op = "reset"
    /\ last.writes = <<"data", "touched">>
    /\ data # EmptyTree
    /\ touched # EmptyTree

---------------------------------------------------------------------------
(* Properties of validate() across the stores *)

\* C17: the call of validate() sets every leaf of the Touched Tree to true
\* and leaves the Error Tree; the failure of the call writes neither store.
\* So when a call fails with no other operation in between, every leaf the
\* Touched Tree had at the call is true and the Error Tree is what it was.
C17_FailedRunKeepsTouchAll ==
    [][ /\ Calls =>
              /\ DOMAIN touched' = DOMAIN touched
              /\ AllLeaves(touched', TRUE)
              /\ errors' = errors
        /\ last'.op = "reject" =>
              /\ touched' = touched
              /\ errors' = errors
        /\ (last.op = "validate" /\ last'.op = "reject") =>
              AllLeaves(touched', TRUE) ]_vars

\* C17 witness: a call made right after reset(), which had set the leaves
\* to false, has failed: the leaves are true and the Error Tree still holds
\* its entry.
C17_Witness ==
    /\ last.op = "reject"
    /\ last.afterReset
    /\ touched # EmptyTree
    /\ AllLeaves(touched, TRUE)
    /\ errors # EmptyTree

\* C18: when a validate() call completes right after a setError made while
\* it was in flight, the entry that setError wrote is in the Error Tree
\* afterwards only if the result of the call holds that entry; the Error
\* Tree is the result of the call.
C18_InjectedErrorLost ==
    [][ (last.op = "setError" /\ last'.op = "resolve") =>
            \A i \in 1..Len(runs) :
                Completes(i) =>
                    LET result == ResultFor(runs[i].currentData,
                                            runs[i].validations)
                    IN  /\ errors[last.path] = last.value
                        /\ _get(errors', last.path) = last.value
                               => _get(result, last.path) = last.value
                        /\ errors' = result ]_vars

\* C18 witness: a call has completed right after a setError, and the Error
\* Tree no longer holds the message that setError wrote.
C18_Witness ==
    /\ last.op = "resolve"
    /\ last.injected
    /\ \A p \in ErrorPaths : _get(errors, p) \notin CustomErrors

\* C19: the completion of a validate() call changes neither the Value Tree
\* nor the Touched Tree (nor the initial values, the form node and what the
\* controls show): what reset(), setTouched or setField have left there
\* while the call was pending is in place after the publication.
C19_CompletionWritesErrorsOnly ==
    [][ last'.op = "resolve" =>
            /\ data' = data
            /\ touched' = touched
            /\ initialValues' = initialValues
            /\ formNode' = formNode
            /\ controls' = controls ]_vars

\* C19 witness: a call has published an Error Tree with entries after a
\* reset() that ran while it was pending: the leaves of the Touched Tree,
\* which the call had set to true, are all false, and the Value Tree holds
\* the initial values.
C19_Witness ==
    /\ last.op = "resolve"
    /\ errors # EmptyTree
    /\ touched # EmptyTree
    /\ AllLeaves(touched, FALSE)
    /\ data = initialValues

---------------------------------------------------------------------------
(* Properties of deepSet on the Touched Tree *)

\* C20: the call of validate() and reset() leave the Touched Tree with the
\* leaf paths it had, no more and no fewer: only the values of the leaves
\* change.  A field of the Value Tree without a leaf in the Touched Tree
\* has none after validate().
C20_LeafPathsKept ==
    [][ /\ Calls =>
              /\ DOMAIN touched' = DOMAIN touched
              /\ \A p \in DOMAIN data :
                     p \notin DOMAIN touched => p \notin DOMAIN touched'
        /\ last'.op = "reset" => DOMAIN touched' = DOMAIN touched ]_vars

\* C20 witness: validate() has been called on a form with a touched field
\* and a field that was never touched; the Touched Tree has no leaf for the
\* latter.
C20_Witness ==
    /\ last.op = "validate"
    /\ <<"c", "0">> \in DOMAIN touched
    /\ <<"a">> \in DOMAIN data
    /\ <<"a">> \notin DOMAIN touched

===========================================================================
